---- MODULE Spec2Model ----
(***************************************************************************)
(* Products_API: the product synchronisation pipeline (provider fetch,     *)
(* normalisation, reconcile against the products table) and the life cycle *)
(* of its Celery jobs (trigger, status, cancel, history), together with    *)
(* the manual product operations that share the products table.            *)
(***************************************************************************)
EXTENDS Integers, Sequences, FiniteSets, TLC

(***************************************************************************)
(* Bounds of the model.                                                    *)
(***************************************************************************)
\* number of sync tasks ever sent (manual triggers and beat firings)
MaxJobs == 2
\* number of records in one fetched payload
MaxLen == 2
\* external identifiers the external API hands out: 1..MaxExtId
MaxExtId == 2
\* rows the products table ever holds (the serial id stops there)
MaxRows == 3
\* writes made through the /products router
MaxManualOps == 1
\* sync tasks sent in the runs that follow one job from its start to its end
MaxSoloJobs == 1
\* page numbers a list request carries: up to MaxPage
MaxPage == 4
\* page sizes a list request carries: up to MaxPageSize, and the schema's limit
MaxPageSize == 3

(***************************************************************************)
(* Values.  Numbers (price, dimensions) are kept in thousandths, so that   *)
(* the Numeric(10, 2) columns round them; titles and descriptions are      *)
(* small integers standing for distinct strings.                           *)
(***************************************************************************)
\* SQL NULL / Python None
NULL == -1
\* a key that is not in a dict at all
ABSENT == -2

ExtIds == 1..MaxExtId
\* the content versions the external API and the admins write
Versions == {1, 2}
Cols == {"title", "price", "description", "height", "length", "depth"}
NumericCols == {"price", "height", "length", "depth"}

\* Numeric(10, 2): a number is stored rounded to hundredths, NULL stays NULL
StoreNumeric(x) ==
    IF x = NULL THEN NULL ELSE ((x + 5) \div 10) * 10

\* the value a column stores for an assigned attribute value
StoreCol(c, x) ==
    IF c \in NumericCols THEN StoreNumeric(x) ELSE x

(***************************************************************************)
(* External provider: DummyJSON.                                           *)
(***************************************************************************)
ProviderRegistry == {"dummyjson"}
\* provider keys a request or the configuration may carry
ProviderKeys == {"dummyjson", "custom"}

\* the dimensions entry of a record: the key is absent, or holds None
\* ("null"), or holds an object whose own keys are a number, NULL or ABSENT
NoDimensions == [tag |-> "absent", width |-> ABSENT, height |-> ABSENT, depth |-> ABSENT]
NullDimensions == [tag |-> "null", width |-> NULL, height |-> NULL, depth |-> NULL]

\* the dimensions object of a DummyJSON record of content version v
DimsOf(v) ==
    [tag |-> "dict", width |-> 5000 + v, height |-> 3000 + v, depth |-> 2000 + v]

\* a DummyJSON record as it stands in the response body; its price v.005 is
\* not a multiple of a hundredth
JsonProduct(id, v, dk) ==
    [id |-> id, title |-> v, price |-> 1000 * v + 5, description |-> v,
     dimensions |-> IF dk = "full" THEN DimsOf(v)
                    ELSE IF dk = "partial"
                         THEN [DimsOf(v) EXCEPT !.height = ABSENT]
                         ELSE NoDimensions]

\* the response bodies the external API serves: up to MaxLen records, each
\* with a full dimensions object or with none
BodyProducts == {JsonProduct(id, v, dk) : id \in ExtIds, v \in Versions, dk \in {"full", "none"}}
Bodies == UNION {[1..n -> BodyProducts] : n \in 0..MaxLen}
\* the bodies of at most one record
ShortBodies == {b \in Bodies : Len(b) <= 1}

\* DummyJSONDimensions(**d).model_dump(): every key present, None when unset;
\* the Optional field itself dumps as None when the record has no dimensions
DumpDimensions(d) ==
    IF d.tag # "dict" THEN NullDimensions
    ELSE [tag |-> "dict",
          width |-> IF d.width = ABSENT THEN NULL ELSE d.width,
          height |-> IF d.height = ABSENT THEN NULL ELSE d.height,
          depth |-> IF d.depth = ABSENT THEN NULL ELSE d.depth]

\* DummyJSONProduct(**p).model_dump()
DumpProduct(p) ==
    [p EXCEPT !.dimensions = DumpDimensions(p.dimensions)]

\* DummyJSONProduct validation: id, title, price and description are required
ValidProduct(p) ==
    /\ p.id \notin {NULL, ABSENT}
    /\ p.title \notin {NULL, ABSENT}
    /\ p.price \notin {NULL, ABSENT}
    /\ p.description \notin {NULL, ABSENT}

\* dict.get(key, default)
DictGet(x, default) ==
    IF x = ABSENT THEN default ELSE x

Err(kind) == [error |-> kind]
IsErr(x) == "error" \in DOMAIN x

\* (mutant) the dimensions are passed on under their own names: width is
\* dropped and length is read from depth
NormalizeProductUnmapped(raw) ==
    IF ~ValidProduct(raw) THEN Err("ValidationError")
    ELSE LET dimensions == raw.dimensions
         IN  IF dimensions.tag = "null" THEN Err("AttributeError")
             ELSE [external_id |-> raw.id,
                   title |-> raw.title,
                   price |-> raw.price,
                   description |-> raw.description,
                   height |-> DictGet(dimensions.height, 0),
                   length |-> DictGet(dimensions.depth, 0),
                   depth |-> DictGet(dimensions.depth, 0),
                   source_api |-> "dummyjson"]

\* DummyJSONProvider.normalize_product: raw_product.get("dimensions", {}) is a
\* dict (read with .get and a default of 0.0) or, when the key holds None,
\* an object without the attributes read from it
NormalizeProduct(raw) ==
    IF ~ValidProduct(raw) THEN Err("ValidationError")
    ELSE LET dimensions == raw.dimensions
         IN  IF dimensions.tag = "null" THEN Err("AttributeError")
             ELSE [external_id |-> raw.id,
                   title |-> raw.title,
                   price |-> raw.price,
                   description |-> raw.description,
                   height |-> DictGet(dimensions.height, 0),
                   length |-> DictGet(dimensions.width, 0),
                   depth |-> DictGet(dimensions.depth, 0),
                   source_api |-> "dummyjson"]

\* DummyJSONProvider.fetch_products on a response body: the validated
\* envelope, each product dumped back to a dict
FetchProducts(body) ==
    IF \E i \in 1..Len(body) : ~ValidProduct(body[i]) THEN Err("ValidationError")
    ELSE [products |-> [i \in 1..Len(body) |-> DumpProduct(body[i])]]

\* the record normalizes without an exception
Normalizes(raw) ==
    ~IsErr(NormalizeProduct(raw))

\* (mutant) a record that does not normalize is skipped and the others are
\* returned
FetchAndNormalizeSkipBad(body) ==
    LET fetched == FetchProducts(body)
    IN  IF IsErr(fetched) THEN fetched
        ELSE LET good == SelectSeq(fetched.products, Normalizes)
             IN  [products |-> [i \in 1..Len(good) |-> NormalizeProduct(good[i])]]

\* ExternalAPIProvider.fetch_and_normalize_products on a response body: the
\* list comprehension raises at the first record that does not normalize
FetchAndNormalize(body) ==
    LET fetched == FetchProducts(body)
    IN  IF IsErr(fetched) THEN fetched
        ELSE LET raw == fetched.products
                 bad == {i \in 1..Len(raw) : IsErr(NormalizeProduct(raw[i]))}
             IN  IF bad # {}
                 THEN NormalizeProduct(raw[CHOOSE i \in bad : \A k \in bad : i <= k])
                 ELSE [products |-> [i \in 1..Len(raw) |-> NormalizeProduct(raw[i])]]

\* get_provider: the provider key resolved against the registry
GetProvider(provider_type, configured) ==
    LET key == IF provider_type = "None" THEN configured ELSE provider_type
    IN  IF key \notin ProviderRegistry THEN Err("ValueError") ELSE [name |-> key]

(***************************************************************************)
(* The products table and a SQLAlchemy session on it.                      *)
(* A row is [id, external_id, owner_id, created_at, f], f the six synced   *)
(* columns; created_at is a logical stamp (0 for rows that were there at   *)
(* the start, the id sequence's value for rows inserted since).             *)
(***************************************************************************)
EmptyFn == [x \in {} |-> 0]

\* the id of the admin account that owns the rows created through the API
AdminId == 1

\* the column values the table stores for a normalized product
SyncedFields(np) ==
    [c \in Cols |-> StoreCol(c, np[c])]

\* the attribute values a normalized product assigns (setattr / Product(...))
AttrsOf(np) ==
    [c \in Cols |-> np[c]]

\* a row of the initial table for external id e: content version 0, which
\* no later payload or admin write carries
SeedRow(id, e) ==
    [id |-> id, external_id |-> e, owner_id |-> AdminId, created_at |-> 0,
     f |-> SyncedFields(NormalizeProduct(JsonProduct(e, 0, "full")))]

\* a row as an earlier pass over content version v left it (had its INSERT
\* carried an owner)
SyncedRow(id, e, v) ==
    [id |-> id, external_id |-> e, owner_id |-> AdminId, created_at |-> 0,
     f |-> SyncedFields(NormalizeProduct(JsonProduct(e, v, "full")))]

\* Product.owner_id is declared nullable=False
NotNullOK(row) ==
    row.owner_id # NULL

\* Product.external_id is declared unique=True (NULLs never collide)
UniqueOK(rows, row) ==
    row.external_id = NULL \/ \A r \in rows : r.external_id # row.external_id

\* (mutant) the columns are declared without their constraints
InsertUnconstrained(rows, row) ==
    TRUE

\* the constraints PostgreSQL checks on INSERT INTO products
InsertOK(rows, row) ==
    NotNullOK(row) /\ UniqueOK(rows, row)

\* an open session: cur / loaded are the identity map (attribute values now,
\* and as last written to or read from the database), new the objects
\* added and not flushed, written the flushed UPDATEs and inserted the
\* flushed INSERTs of the open transaction
NoSession ==
    [cur |-> EmptyFn, loaded |-> EmptyFn, new |-> <<>>, written |-> EmptyFn, inserted |-> {}]

\* the columns of object id whose value differs from the loaded one
DirtyCols(s, id) ==
    {c \in Cols : s.cur[id][c] # s.loaded[id][c]}

DirtyIds(s) ==
    {id \in DOMAIN s.cur : DirtyCols(s, id) # {}}

\* rows a statement of the session sees: the committed rows, with its own
\* uncommitted UPDATEs and INSERTs
Visible(rows, s) ==
    {[r EXCEPT !.f = [c \in Cols |->
                        IF r.id \in DOMAIN s.written /\ c \in DOMAIN s.written[r.id]
                        THEN s.written[r.id][c] ELSE r.f[c]]] : r \in rows}
    \cup s.inserted

\* the flush a query or a commit starts with: UPDATE per dirty object, then
\* INSERT per new object.  An UPDATE that matches no row raises
\* StaleDataError, an INSERT that breaks a constraint IntegrityError.
Flush(rows, s, nid) ==
    LET dirty == DirtyIds(s)
        stale == \E id \in dirty : \A r \in Visible(rows, s) : r.id # id
        newrow == IF s.new = <<>> THEN [id |-> nid] ELSE [s.new[1] EXCEPT !.id = nid, !.created_at = nid]
        badins == s.new # <<>> /\ ~InsertOK(Visible(rows, s), newrow)
    IN  IF stale THEN Err("StaleDataError")
        ELSE IF badins THEN Err("IntegrityError")
        ELSE [sess |->
                [cur |-> s.cur,
                 loaded |-> s.cur,
                 new |-> <<>>,
                 written |-> [id \in DOMAIN s.written \cup dirty |->
                               [c \in (IF id \in DOMAIN s.written THEN DOMAIN s.written[id] ELSE {})
                                      \cup (IF id \in dirty THEN DirtyCols(s, id) ELSE {}) |->
                                  IF id \in dirty /\ c \in DirtyCols(s, id)
                                  THEN StoreCol(c, s.cur[id][c])
                                  ELSE s.written[id][c]]],
                 inserted |-> IF s.new = <<>> THEN s.inserted
                              ELSE s.inserted \cup
                                   {[newrow EXCEPT !.f = [c \in Cols |-> StoreCol(c, newrow.f[c])]]}],
              nextId |-> IF s.new = <<>> THEN nid ELSE nid + 1]

\* the rows another transaction holds a row lock on (its flushed UPDATEs)
Locks(s) ==
    DOMAIN s.written

\* (mutant) a full sync mirrors the provider: the rows the pass did not
\* write are deleted
CommitMirrors(rows, s) ==
    {r \in Visible(rows, s) : r.id \in DOMAIN s.written} \cup s.inserted

\* COMMIT: the flushed writes of the transaction become the committed rows
Commit(rows, s) ==
    Visible(rows, s)

\* (mutant) the flushed statements of a failed pass stay in the table
RollbackKeepsFlushed(rows, s) ==
    Commit(rows, s)

\* leaving `async with AsyncSessionLocal()` on an exception: the session is
\* closed and its transaction rolled back
Rollback(rows, s) ==
    rows

\* (mutant) the lookup also matches the rows that have no external id
SelectByExternalIdOrNull(rows, s, e) ==
    LET hit == {r \in Visible(rows, s) : r.external_id \in {e, NULL}}
    IN  IF Cardinality(hit) > 1 THEN Err("MultipleResultsFound")
        ELSE [found |-> hit]

\* select(Product).where(Product.external_id == e), scalar_one_or_none()
SelectByExternalId(rows, s, e) ==
    LET hit == {r \in Visible(rows, s) : r.external_id = e}
    IN  IF Cardinality(hit) > 1 THEN Err("MultipleResultsFound")
        ELSE [found |-> hit]

\* one pass of the loop body of sync_products_from_external for product_data,
\* after the query's autoflush: the object found is updated in place, or a
\* new Product (without owner_id) is added to the session
Reconcile(s, hit, np) ==
    IF hit # {}
    THEN LET r == CHOOSE x \in hit : TRUE
             known == r.id \in DOMAIN s.cur
         IN  [sess |-> [s EXCEPT
                          !.cur = [id \in DOMAIN s.cur \cup {r.id} |->
                                     IF id = r.id THEN AttrsOf(np) ELSE s.cur[id]],
                          !.loaded = [id \in DOMAIN s.loaded \cup {r.id} |->
                                     IF id = r.id /\ ~known THEN r.f ELSE s.loaded[id]]],
              added |-> 0, updated |-> 1]
    ELSE [sess |-> [s EXCEPT !.new = <<[id |-> NULL,
                                        external_id |-> np.external_id,
                                        owner_id |-> NULL,
                                        created_at |-> NULL,
                                        f |-> AttrsOf(np)]>>],
          added |-> 1, updated |-> 0]

(***************************************************************************)
(* State.                                                                  *)
(***************************************************************************)
VARIABLES
    settings,   \* settings.external_api_provider
    db,         \* the committed rows of the products table
    nextId,     \* the next value of the products id sequence
    jobs,       \* the sync tasks sent so far, by task id 1..Len(jobs)
    backend,    \* the Celery result backend: task id -> stored meta
    revokeQ,    \* revoke broadcasts sent and not yet handled by the worker
    revoked,    \* the worker's set of revoked task ids
    resp,       \* the last response of the job-control surface
    manualOps,  \* number of writes made through the /products router
    lastPass,   \* history: the last reconcile pass that ran to its end
    lastFetch,  \* history: the last response body and what the provider made of it
    caller      \* whose credentials the requests to the API carry

vars == <<settings, db, nextId, jobs, backend, revokeQ, revoked, resp, manualOps, lastPass, lastFetch, caller>>

\* task ids a caller may name: 0 is an id no trigger ever returned
TaskIds == 0..MaxJobs
Minted == 1..Len(jobs)

NoMeta == [state |-> "PENDING"]
\* history values: no pass to compare with; history not kept at all
NoPass == [kind |-> "none"]
Untracked == [kind |-> "off"]
NoResp == [op |-> "none"]
NoResult == [status |-> "-"]
\* history: the job has not called get_external_provider() yet
NoProvider == [name |-> "-"]

\* a task as send_task / beat puts it on the queue
NewJob(origin, requested) ==
    [origin |-> origin, requested |-> requested,
     where |-> "queued", pc |-> "-",
     batch |-> <<>>, i |-> 0, sess |-> NoSession, added |-> 0, updated |-> 0,
     result |-> NoResult,
     \* history, for the properties
     raised |-> FALSE, flushed |-> FALSE, committed |-> FALSE,
     cancelAt |-> "none", observed |-> FALSE, prev |-> Untracked, pass |-> Untracked,
     provider |-> NoProvider]

\* a job that has left the worker: its working state is gone
Ended(job) ==
    [job EXCEPT !.where = "done", !.pc = "-", !.batch = <<>>, !.i = 0,
                !.sess = NoSession, !.added = 0, !.updated = 0, !.result = NoResult]

InPass(job) ==
    job.where = "active" /\ job.pc = "loop"

\* the initial table: one row per external id of S, as an earlier
\* deployment or a seed left it (every constraint of the schema holds)
SeedTable(S) ==
    {SeedRow(Cardinality({x \in S : x <= e}), e) : e \in S}

\* the state every specification starts from, but for the table and the
\* history switch
Fresh ==
    /\ settings \in ProviderKeys
    /\ jobs = <<>>
    /\ backend = [t \in TaskIds |-> NoMeta]
    /\ revokeQ = {}
    /\ revoked = {}
    /\ resp = NoResp
    /\ manualOps = 0
    /\ caller = "admin"

\* the table holds a row for external id 1 and none for the others
Init ==
    /\ Fresh
    /\ db = SeedTable({1})
    /\ nextId = 2
    /\ lastPass = Untracked
    /\ lastFetch = Untracked

(***************************************************************************)
(* Job control: ProductSyncService and the /sync router.                   *)
(* The broker and the result backend are taken to be reachable, so the     *)
(* except branches of the service methods (status "error") are not taken.  *)
(***************************************************************************)
\* AsyncResult(task_id).state: a task the backend holds nothing about is PENDING
TaskState(t) ==
    backend[t].state

\* ProductSyncService.get_sync_status
GetSyncStatus(t) ==
    LET state == TaskState(t)
    IN  CASE state = "PENDING" -> [status |-> "pending"]
          [] state = "PROGRESS" -> [status |-> "in_progress", current |-> 0, total |-> 1]
          [] state = "SUCCESS" -> [status |-> "completed", result |-> backend[t].result]
          [] state = "FAILURE" -> [status |-> "failed", error |-> backend[t].result]
          [] state = "REVOKED" -> [status |-> "revoked"]
          [] OTHER -> [status |-> "started"]

\* GET /sync/status/{task_id}: 404 when the service answers status error
StatusRoute(t) ==
    IF GetSyncStatus(t).status = "error" THEN 404 ELSE 200

\* ProductSyncService.get_sync_history: what inspect() reports, whatever
\* the limit; nothing is scheduled with an eta, and a received task starts
\* at once, so only active tasks show
GetSyncHistory(limit) ==
    [status |-> "success",
     active_tasks |-> {t \in Minted : jobs[t].where = "active"},
     scheduled_tasks |-> {},
     reserved_tasks |-> {}]

\* (mutant) the task is sent without validating the provider key
StartFullSyncUnvalidated(key) ==
    /\ Len(jobs) < MaxJobs
    /\ jobs' = Append(jobs, NewJob("manual", key))
    /\ resp' = [op |-> "trigger", http |-> 202, status |-> "started",
                task_id |-> Len(jobs) + 1, provider_type |-> key]

\* (mutant) the service runs the task in line instead of sending it: the
\* pipeline has begun when the call returns
StartFullSyncEager(key) ==
    LET provider == GetProvider(key, settings)
    IN  IF IsErr(provider)
        THEN /\ resp' = [op |-> "trigger", http |-> 400, status |-> "error", key |-> key]
             /\ UNCHANGED jobs
        ELSE /\ Len(jobs) < MaxJobs
             /\ jobs' = Append(jobs, [NewJob("manual", key) EXCEPT !.where = "active", !.pc = "fetch"])
             /\ resp' = [op |-> "trigger", http |-> 202, status |-> "started",
                         task_id |-> Len(jobs) + 1, provider_type |-> provider.name]

\* ProductSyncService.start_full_sync behind POST /sync/trigger
StartFullSync(key) ==
    LET provider == GetProvider(key, settings)
    IN  IF IsErr(provider)
        THEN /\ resp' = [op |-> "trigger", http |-> 400, status |-> "error", key |-> key]
             /\ UNCHANGED jobs
        ELSE /\ Len(jobs) < MaxJobs
             /\ jobs' = Append(jobs, NewJob("manual", key))
             /\ resp' = [op |-> "trigger", http |-> 202, status |-> "started",
                         task_id |-> Len(jobs) + 1, provider_type |-> provider.name]

TriggerSync ==
    /\ \E key \in ProviderKeys \cup {"None"} : StartFullSync(key)
    /\ UNCHANGED <<settings, caller, lastFetch, db, nextId, backend, revokeQ, revoked, lastPass, manualOps>>

\* celery beat: the beat_schedule entry sends app.tasks.sync_products
BeatTrigger ==
    /\ Len(jobs) < MaxJobs
    /\ jobs' = Append(jobs, NewJob("scheduled", "None"))
    /\ UNCHANGED <<settings, caller, lastFetch, db, nextId, backend, revokeQ, revoked, resp, lastPass, manualOps>>

\* ProductSyncService.cancel_sync behind DELETE /sync/cancel/{task_id}:
\* revoke(task_id, terminate=True) is a broadcast; the answer is always
\* "cancelled"
CancelSync(t) ==
    /\ revokeQ' = IF t \in Minted /\ jobs[t].where # "done" THEN revokeQ \cup {t} ELSE revokeQ
    /\ jobs' = IF t \in Minted /\ jobs[t].where # "done" /\ jobs[t].cancelAt = "none"
               THEN [jobs EXCEPT ![t].cancelAt = jobs[t].where]
               ELSE jobs
    /\ resp' = [op |-> "cancel", http |-> 200, status |-> "cancelled", task_id |-> t]
    /\ UNCHANGED <<settings, caller, lastFetch, db, nextId, backend, revoked, lastPass, manualOps>>

Cancel ==
    \E t \in {0} \cup Minted : CancelSync(t)

(***************************************************************************)
(* The worker running app.tasks.sync_products.                             *)
(***************************************************************************)
\* history: a pass of another job, or a manual write, came in between
Disturb(js, j) ==
    [k \in DOMAIN js |-> IF k # j /\ InPass(js[k]) THEN [js[k] EXCEPT !.prev = Untracked] ELSE js[k]]

\* history: a reconcile pass that ran to its end on batch with result res
PassOf(batch, res, rows) ==
    IF lastPass = Untracked THEN Untracked
    ELSE [kind |-> "pass", batch |-> batch, res |-> res, rows |-> rows]

\* history: the pass of job ended with flushed, uncommitted UPDATEs
HadFlushed(job) ==
    lastPass # Untracked /\ DOMAIN job.sess.written # {}

\* history: nothing to compare the next pass with
Forget ==
    IF lastPass = Untracked THEN Untracked ELSE NoPass

\* sync_products_from_external caught an exception: the task returns the
\* error dict, which Celery stores as the result of a successful task
ReturnError(j, kind, passRec) ==
    /\ jobs' = Disturb([jobs EXCEPT ![j] = [Ended(jobs[j]) EXCEPT
                                              !.raised = TRUE,
                                              !.provider = IF jobs[j].pc = "fetch"
                                                           THEN GetProvider("None", settings)
                                                           ELSE jobs[j].provider,
                                              !.flushed = HadFlushed(jobs[j]),
                                              !.pass = passRec]], j)
    /\ backend' = [backend EXCEPT ![j] = [state |-> "SUCCESS",
                                          result |-> [status |-> "error", error |-> kind]]]

\* the worker takes the task off the queue: a revoked task is discarded
WorkerStart(j) ==
    /\ j \in Minted
    /\ jobs[j].where = "queued"
    /\ IF j \in revoked
       THEN /\ jobs' = [jobs EXCEPT ![j] = Ended(jobs[j])]
            /\ backend' = [backend EXCEPT ![j] = [state |-> "REVOKED"]]
       ELSE /\ jobs' = [jobs EXCEPT ![j].where = "active", ![j].pc = "fetch"]
            /\ UNCHANGED backend
    /\ UNCHANGED <<settings, caller, lastFetch, db, nextId, revokeQ, revoked, resp, lastPass, manualOps>>

\* sync.py 24-27: get_external_provider() and fetch_and_normalize_products(),
\* on the body the external API answers with
FetchBody(j, body) ==
    LET provider == GetProvider("None", settings)
        fetched == FetchAndNormalize(body)
        alone == \A k \in Minted : k = j \/ ~InPass(jobs[k])
    IN  /\ j \in Minted
        /\ jobs[j].where = "active" /\ jobs[j].pc = "fetch"
        /\ IF IsErr(provider) THEN ReturnError(j, provider.error, Untracked)
           ELSE IF IsErr(fetched) THEN ReturnError(j, fetched.error, Untracked)
           ELSE /\ jobs' = [jobs EXCEPT ![j].pc = "loop", ![j].i = 1,
                                        ![j].batch = fetched.products,
                                        ![j].provider = provider,
                                        ![j].sess = NoSession,
                                        ![j].prev = IF alone /\ lastPass # NoPass THEN lastPass ELSE Untracked]
                /\ UNCHANGED backend
        /\ lastFetch' = IF lastFetch = Untracked \/ IsErr(provider) THEN lastFetch
                         ELSE [kind |-> "fetch", task |-> j, body |-> body, out |-> fetched]
        /\ UNCHANGED <<settings, caller, db, nextId, revokeQ, revoked, resp, lastPass, manualOps>>

\* the request fails (transport error, error status, malformed envelope)
FetchFails(j) ==
    /\ j \in Minted
    /\ jobs[j].where = "active" /\ jobs[j].pc = "fetch"
    /\ LET provider == GetProvider("None", settings)
       IN  ReturnError(j, IF IsErr(provider) THEN provider.error ELSE "HTTPError", Untracked)
    /\ UNCHANGED <<settings, caller, lastFetch, db, nextId, revokeQ, revoked, resp, lastPass, manualOps>>

\* an UPDATE waits for the row locks other open transactions hold
Blocked(j) ==
    \E k \in Minted : k # j /\ DirtyIds(jobs[j].sess) \cap Locks(jobs[k].sess) # {}

\* sync.py 33-59: one iteration of the loop
LoopStep(j) ==
    /\ j \in Minted
    /\ InPass(jobs[j])
    /\ jobs[j].i <= Len(jobs[j].batch)
    /\ ~Blocked(j)
    /\ LET job == jobs[j]
           np == job.batch[job.i]
           fl == Flush(db, job.sess, nextId)
           sel == SelectByExternalId(db, fl.sess, np.external_id)
           rec == Reconcile(fl.sess, sel.found, np)
           err == IF IsErr(fl) THEN fl ELSE sel
       IN  IF IsErr(err)
           THEN /\ ReturnError(j, err.error,
                               PassOf(job.batch, [status |-> "error"], Rollback(db, job.sess)))
                /\ db' = Rollback(db, job.sess)
                /\ lastPass' = PassOf(job.batch, [status |-> "error"], db')
                /\ UNCHANGED nextId
           ELSE /\ jobs' = [jobs EXCEPT ![j].sess = rec.sess, ![j].i = job.i + 1,
                                        ![j].added = job.added + rec.added,
                                        ![j].updated = job.updated + rec.updated]
                /\ nextId' = fl.nextId
                /\ UNCHANGED <<db, backend, lastPass>>
    /\ UNCHANGED <<settings, caller, lastFetch, revokeQ, revoked, resp, manualOps>>

\* sync.py 61: db.commit()
CommitStep(j) ==
    /\ j \in Minted
    /\ InPass(jobs[j])
    /\ jobs[j].i = Len(jobs[j].batch) + 1
    /\ ~Blocked(j)
    /\ LET job == jobs[j]
           fl == Flush(db, job.sess, nextId)
           clash == \E r \in fl.sess.inserted : ~InsertOK(db, r)
           res == [status |-> "success", added |-> job.added, updated |-> job.updated,
                   total_processed |-> Len(job.batch)]
       IN  IF IsErr(fl) \/ clash
           THEN /\ ReturnError(j, "IntegrityError",
                               PassOf(job.batch, [status |-> "error"], Rollback(db, job.sess)))
                /\ db' = Rollback(db, job.sess)
                /\ lastPass' = PassOf(job.batch, [status |-> "error"], db')
                /\ UNCHANGED nextId
           ELSE /\ db' = Commit(db, fl.sess)
                /\ nextId' = fl.nextId
                /\ jobs' = Disturb([jobs EXCEPT ![j].pc = "return", ![j].sess = NoSession,
                                                ![j].committed = TRUE, ![j].result = res,
                                                ![j].pass = PassOf(job.batch, res, db')], j)
                /\ lastPass' = PassOf(job.batch, res, db')
                /\ UNCHANGED backend
    /\ UNCHANGED <<settings, caller, lastFetch, revokeQ, revoked, resp, manualOps>>

\* (mutant) the task is declared with ignore_result=True: nothing is stored
ReturnStepIgnoreResult(j) ==
    /\ j \in Minted
    /\ jobs[j].where = "active" /\ jobs[j].pc = "return"
    /\ jobs' = [jobs EXCEPT ![j] = Ended(jobs[j])]
    /\ UNCHANGED <<settings, caller, lastFetch, db, nextId, backend, revokeQ, revoked, resp, lastPass, manualOps>>

\* sync.py 63-68 and tasks.py 19-21: the result dict is returned and stored
ReturnStep(j) ==
    /\ j \in Minted
    /\ jobs[j].where = "active" /\ jobs[j].pc = "return"
    /\ backend' = [backend EXCEPT ![j] = [state |-> "SUCCESS", result |-> jobs[j].result]]
    /\ jobs' = [jobs EXCEPT ![j] = Ended(jobs[j])]
    /\ UNCHANGED <<settings, caller, lastFetch, db, nextId, revokeQ, revoked, resp, lastPass, manualOps>>

\* a statement or the commit fails in the storage layer (connection lost,
\* deadlock victim, ...): caught at sync.py 70 like any exception
StorageFault(j) ==
    /\ j \in Minted
    /\ InPass(jobs[j])
    /\ ReturnError(j, "OperationalError", Untracked)
    /\ db' = Rollback(db, jobs[j].sess)
    /\ lastPass' = Forget
    /\ UNCHANGED <<settings, caller, lastFetch, nextId, revokeQ, revoked, resp, manualOps>>

\* (mutant) revoke(task_id) without terminate=True: a running task is left
\* to run
WorkerRevokeNoTerminate(t) ==
    /\ t \in revokeQ
    /\ revokeQ' = revokeQ \ {t}
    /\ revoked' = IF jobs[t].where = "queued" THEN revoked \cup {t} ELSE revoked
    /\ jobs' = IF jobs[t].where # "done" THEN [jobs EXCEPT ![t].observed = TRUE] ELSE jobs
    /\ UNCHANGED <<settings, caller, lastFetch, db, nextId, backend, resp, manualOps, lastPass>>

\* the worker handles the broadcast of revoke(task_id, terminate=True): a
\* task not yet started is remembered as revoked, a running one is
\* terminated and marked REVOKED, a finished one is left as it is
WorkerRevoke(t) ==
    /\ t \in revokeQ
    /\ revokeQ' = revokeQ \ {t}
    /\ IF jobs[t].where = "queued"
       THEN /\ revoked' = revoked \cup {t}
            /\ jobs' = [jobs EXCEPT ![t].observed = TRUE]
            /\ UNCHANGED <<backend, lastPass>>
       ELSE IF jobs[t].where = "active"
       THEN /\ jobs' = IF InPass(jobs[t])
                       THEN Disturb([jobs EXCEPT ![t] = [Ended(jobs[t]) EXCEPT
                                       !.observed = TRUE,
                                       !.flushed = HadFlushed(jobs[t])]], t)
                       ELSE [jobs EXCEPT ![t] = [Ended(jobs[t]) EXCEPT !.observed = TRUE]]
            /\ backend' = [backend EXCEPT ![t] = [state |-> "REVOKED"]]
            /\ lastPass' = IF InPass(jobs[t]) THEN Forget ELSE lastPass
            /\ UNCHANGED revoked
       ELSE UNCHANGED <<jobs, backend, revoked, lastPass>>
    /\ UNCHANGED <<settings, caller, lastFetch, db, nextId, resp, manualOps>>

\* celery_app.py 16: result_expires - the backend drops a stored result
ExpireResult(t) ==
    /\ t \in Minted
    /\ jobs[t].where = "done"
    /\ backend[t] # NoMeta
    /\ backend' = [backend EXCEPT ![t] = NoMeta]
    /\ UNCHANGED <<settings, caller, lastFetch, db, nextId, jobs, revokeQ, revoked, resp, lastPass, manualOps>>

(***************************************************************************)
(* The /products router (admin operations on the same table).              *)
(***************************************************************************)
\* the fields an admin writes for content version v
ManualFields(v) ==
    [title |-> 10 + v, price |-> 10000 + 10 * v, description |-> 10 + v,
     height |-> NULL, length |-> NULL, depth |-> NULL]

RowLocked(id) ==
    \E k \in Minted : id \in Locks(jobs[k].sess)

\* POST /products/
CreateProduct(v) ==
    LET row == [id |-> nextId, external_id |-> NULL, owner_id |-> AdminId,
                created_at |-> nextId,
                f |-> [c \in Cols |-> StoreCol(c, ManualFields(v)[c])]]
    IN  /\ manualOps < MaxManualOps
        /\ nextId <= MaxRows
        /\ InsertOK(db, row)
        /\ db' = db \cup {row}
        /\ nextId' = nextId + 1
        /\ jobs' = Disturb(jobs, 0)
        /\ lastPass' = Forget
        /\ manualOps' = manualOps + 1
        /\ UNCHANGED <<settings, caller, lastFetch, backend, revokeQ, revoked, resp>>

\* PUT /products/{product_id}, with title and price set in the request
UpdateProduct(id, v) ==
    /\ manualOps < MaxManualOps
    /\ \E r \in db : r.id = id
    /\ ~RowLocked(id)
    /\ db' = {IF r.id = id
              THEN [r EXCEPT !.f = [c \in Cols |-> IF c \in {"title", "price"}
                                                 THEN StoreCol(c, ManualFields(v)[c])
                                                 ELSE r.f[c]]]
              ELSE r : r \in db}
    /\ jobs' = Disturb(jobs, 0)
    /\ lastPass' = Forget
    /\ manualOps' = manualOps + 1
    /\ UNCHANGED <<settings, caller, lastFetch, nextId, backend, revokeQ, revoked, resp>>

\* DELETE /products/{product_id}
DeleteProduct(id) ==
    /\ manualOps < MaxManualOps
    /\ \E r \in db : r.id = id
    /\ ~RowLocked(id)
    /\ db' = {r \in db : r.id # id}
    /\ jobs' = Disturb(jobs, 0)
    /\ lastPass' = Forget
    /\ manualOps' = manualOps + 1
    /\ UNCHANGED <<settings, caller, lastFetch, nextId, backend, revokeQ, revoked, resp>>

(***************************************************************************)
(* POST /sync/schedule.                                                    *)
(***************************************************************************)
\* celery_app.conf.beat_schedule: crontab(minute="*/30"), the period in
\* seconds at which beat sends app.tasks.sync_products.  It is set when
\* the module is loaded; no operation of the service writes it.
BeatCadence == 1800

\* the cron expressions and intervals a schedule request may carry ("None"
\* and NULL: the field is not given)
CronExpressions == {"None", "", "*/5 * * * *"}
Intervals == {NULL, 0, 60}

\* Python truth value of an Optional[str] / Optional[int]
TruthyStr(x) == x \notin {"None", ""}
TruthyInt(x) == x \notin {NULL, 0}

\* ProductSyncService.schedule_sync
ScheduleSync(cron_expression, interval_seconds) ==
    IF TruthyStr(cron_expression) /\ TruthyInt(interval_seconds)
    THEN [status |-> "error"]
    ELSE [status |-> "success",
          cron_expression |-> cron_expression,
          interval_seconds |-> IF ~TruthyStr(cron_expression) /\ ~TruthyInt(interval_seconds)
                               THEN 300 ELSE interval_seconds]

\* POST /sync/schedule: 400 when the service answers status error; the
\* request is kept with the response
Schedule ==
    /\ \E cron \in CronExpressions : \E interval \in Intervals :
         LET result == ScheduleSync(cron, interval)
         IN  resp' = [op |-> "schedule",
                      http |-> IF result.status = "error" THEN 400 ELSE 200,
                      status |-> result.status,
                      request |-> [cron_expression |-> cron, interval_seconds |-> interval],
                      result |-> result]
    /\ UNCHANGED <<settings, caller, lastFetch, db, nextId, jobs, backend, revokeQ, revoked, lastPass, manualOps>>

Next ==
    \/ TriggerSync
    \/ BeatTrigger
    \/ Cancel
    \/ \E j \in 1..MaxJobs : WorkerStart(j)
    \/ \E j \in 1..MaxJobs : \E body \in ShortBodies : FetchBody(j, body)
    \/ \E j \in 1..MaxJobs : FetchFails(j)
    \/ \E j \in 1..MaxJobs : LoopStep(j)
    \/ \E j \in 1..MaxJobs : CommitStep(j)
    \/ \E j \in 1..MaxJobs : ReturnStep(j)
    \/ \E j \in 1..MaxJobs : StorageFault(j)
    \/ \E t \in 1..MaxJobs : WorkerRevoke(t)
    \/ \E t \in 1..MaxJobs : ExpireResult(t)

\* the life cycle of the sync jobs under the job-control surface
Spec == Init /\ [][Next]_vars

(***************************************************************************)
(* Reconcile passes one after the other: a worker that runs one task at a  *)
(* time, nothing else writing to the table, every body the API may serve,  *)
(* and the history of passes kept.                                         *)
(***************************************************************************)
InitSeq ==
    /\ Fresh
    /\ \E S \in SUBSET ExtIds :
         /\ db = SeedTable(S)
         /\ nextId = Cardinality(S) + 1
    /\ lastPass = NoPass
    /\ lastFetch = Untracked

Idle ==
    \A k \in Minted : jobs[k].where # "active"

NextSeq ==
    \/ BeatTrigger
    \/ \E j \in 1..MaxJobs : Idle /\ WorkerStart(j)
    \/ \E j \in 1..MaxJobs : \E body \in Bodies : FetchBody(j, body)
    \/ \E j \in 1..MaxJobs : FetchFails(j)
    \/ \E j \in 1..MaxJobs : LoopStep(j)
    \/ \E j \in 1..MaxJobs : CommitStep(j)
    \/ \E j \in 1..MaxJobs : ReturnStep(j)
    \/ \E j \in 1..MaxJobs : StorageFault(j)

SpecSeq == InitSeq /\ [][NextSeq]_vars

(***************************************************************************)
(* The products table under concurrent sync jobs and the admin operations  *)
(* of the /products router.                                                *)
(***************************************************************************)
InitTable ==
    /\ Fresh
    /\ \E S \in SUBSET ExtIds :
         /\ db = SeedTable(S)
         /\ nextId = Cardinality(S) + 1
    /\ lastPass = Untracked
    /\ lastFetch = Untracked

NextTable ==
    \/ BeatTrigger
    \/ \E j \in 1..MaxJobs : WorkerStart(j)
    \/ \E j \in 1..MaxJobs : \E body \in ShortBodies : FetchBody(j, body)
    \/ \E j \in 1..MaxJobs : FetchFails(j)
    \/ \E j \in 1..MaxJobs : LoopStep(j)
    \/ \E j \in 1..MaxJobs : CommitStep(j)
    \/ \E j \in 1..MaxJobs : ReturnStep(j)
    \/ \E j \in 1..MaxJobs : StorageFault(j)
    \/ \E v \in Versions : CreateProduct(v)
    \/ \E id \in 1..MaxRows : \E v \in Versions : UpdateProduct(id, v)
    \/ \E id \in 1..MaxRows : DeleteProduct(id)

SpecTable == InitTable /\ [][NextTable]_vars

(***************************************************************************)
(* The schedule route beside the beat and the worker.                      *)
(***************************************************************************)
NextSchedule ==
    \/ Schedule
    \/ BeatTrigger
    \/ \E j \in 1..MaxJobs : WorkerStart(j)
    \/ \E j \in 1..MaxJobs : \E body \in ShortBodies : FetchBody(j, body)
    \/ \E j \in 1..MaxJobs : FetchFails(j)
    \/ \E j \in 1..MaxJobs : LoopStep(j)
    \/ \E j \in 1..MaxJobs : CommitStep(j)
    \/ \E j \in 1..MaxJobs : ReturnStep(j)

SpecSchedule == Init /\ [][NextSchedule]_vars

(***************************************************************************)
(* The life cycle under a worker that keeps taking and running tasks: a    *)
(* received task is started, the provider request answers or fails (the    *)
(* HTTP client times out), and every step of the pass is taken.            *)
(***************************************************************************)
WorkerFairness ==
    \A j \in 1..MaxJobs :
        /\ WF_vars(WorkerStart(j))
        /\ WF_vars(FetchFails(j) \/ \E body \in ShortBodies : FetchBody(j, body))
        /\ WF_vars(LoopStep(j))
        /\ WF_vars(CommitStep(j))
        /\ WF_vars(ReturnStep(j))

\* the jobs sent while the worker is watched
NextLive ==
    \/ Len(jobs) < MaxSoloJobs /\ TriggerSync
    \/ Cancel
    \/ \E j \in 1..MaxJobs : WorkerStart(j)
    \/ \E j \in 1..MaxJobs : \E body \in ShortBodies : FetchBody(j, body)
    \/ \E j \in 1..MaxJobs : FetchFails(j)
    \/ \E j \in 1..MaxJobs : LoopStep(j)
    \/ \E j \in 1..MaxJobs : CommitStep(j)
    \/ \E j \in 1..MaxJobs : ReturnStep(j)
    \/ \E t \in 1..MaxJobs : WorkerRevoke(t)
    \/ \E t \in 1..MaxJobs : ExpireResult(t)

SpecLive == Init /\ [][NextLive]_vars /\ WorkerFairness

(***************************************************************************)
(* The provider pipeline of one job followed from the response body to the *)
(* end of its pass: every body the API may serve, records with a full or   *)
(* a partial dimensions object or with none, and the fetch kept.           *)
(***************************************************************************)
NoFetch == [kind |-> "none"]

AnyProducts ==
    {JsonProduct(id, v, dk) : id \in ExtIds, v \in Versions, dk \in {"full", "partial", "none"}}
AnyBodies == UNION {[1..n -> AnyProducts] : n \in 0..MaxLen}

InitFetch ==
    /\ Fresh
    /\ \E S \in SUBSET ExtIds :
         /\ db = SeedTable(S)
         /\ nextId = Cardinality(S) + 1
    /\ lastPass = Untracked
    /\ lastFetch = NoFetch

NextFetch ==
    \/ Len(jobs) < MaxSoloJobs /\ BeatTrigger
    \/ \E j \in 1..MaxJobs : WorkerStart(j)
    \/ \E j \in 1..MaxJobs : \E body \in AnyBodies : FetchBody(j, body)
    \/ \E j \in 1..MaxJobs : FetchFails(j)
    \/ \E j \in 1..MaxJobs : LoopStep(j)
    \/ \E j \in 1..MaxJobs : CommitStep(j)
    \/ \E j \in 1..MaxJobs : ReturnStep(j)

SpecFetch == InitFetch /\ [][NextFetch]_vars

(***************************************************************************)
(* Two sync jobs at once (a manual trigger beside a beat firing) on a      *)
(* table that already holds the provider's content, with the history of    *)
(* passes kept.                                                            *)
(***************************************************************************)
InitRace ==
    /\ Fresh
    /\ \E v \in Versions : db = {SyncedRow(1, 1, v)}
    /\ nextId = 2
    /\ lastPass = NoPass
    /\ lastFetch = Untracked

NextRace ==
    \/ BeatTrigger
    \/ TriggerSync
    \/ \E j \in 1..MaxJobs : WorkerStart(j)
    \/ \E j \in 1..MaxJobs : \E body \in ShortBodies : FetchBody(j, body)
    \/ \E j \in 1..MaxJobs : FetchFails(j)
    \/ \E j \in 1..MaxJobs : LoopStep(j)
    \/ \E j \in 1..MaxJobs : CommitStep(j)
    \/ \E j \in 1..MaxJobs : ReturnStep(j)

SpecRace == InitRace /\ [][NextRace]_vars

(***************************************************************************)
(* Authentication: the require_admin dependency every writing route and    *)
(* every /sync route declares.  FastAPI resolves it before the handler's   *)
(* body runs.                                                              *)
(***************************************************************************)
\* callers: no Authorization header, a token that does not verify, a
\* registered user of role "user", the admin
Callers == {"anonymous", "badtoken", "user", "admin"}

\* User.role of the account a caller's token names ("-": no account)
Role(c) ==
    IF c \in {"user", "admin"} THEN c ELSE "-"

\* get_current_user (get_current_active_user returns it as it is):
\* HTTPBearer refuses a request without credentials, verify_token a bad token
GetCurrentUser(c) ==
    IF c = "anonymous" THEN Err("Forbidden")
    ELSE IF Role(c) = "-" THEN Err("Unauthorized")
    ELSE [role |-> Role(c)]

\* (mutant) the routes depend on get_current_active_user only
RequireActiveUser(c) ==
    GetCurrentUser(c)

\* require_admin
RequireAdmin(c) ==
    LET current_user == GetCurrentUser(c)
    IN  IF IsErr(current_user) THEN current_user
        ELSE IF current_user.role # "admin" THEN Err("Forbidden")
        ELSE current_user

\* the status code of the HTTPException a dependency raised
HttpStatus(e) ==
    IF e.error = "Unauthorized" THEN 401 ELSE 403

\* the routes that declare Depends(require_admin)
AdminRoutes ==
    {"create", "update", "delete", "trigger", "status", "cancel", "history",
     "schedule", "providers"}

\* the requests that follow carry the credentials of c
Authenticate(c) ==
    /\ caller' = c
    /\ caller # c
    /\ UNCHANGED <<settings, lastFetch, db, nextId, jobs, backend, revokeQ, revoked, resp,
                   lastPass, manualOps>>

\* a request to an admin route whose dependency raised: the handler's body
\* does not run
Reject(route) ==
    /\ IsErr(RequireAdmin(caller))
    /\ resp' = [op |-> route, http |-> HttpStatus(RequireAdmin(caller)), status |-> "denied"]
    /\ UNCHANGED <<settings, caller, lastFetch, db, nextId, jobs, backend, revokeQ, revoked,
                   lastPass, manualOps>>

\* the handler's body runs for a caller the dependency let through
Admitted ==
    ~IsErr(RequireAdmin(caller))

InitAuth ==
    /\ Fresh
    /\ db = SeedTable({1})
    /\ nextId = 2
    /\ lastPass = Untracked
    /\ lastFetch = Untracked

NextAuth ==
    \/ \E c \in Callers : Authenticate(c)
    \/ \E route \in AdminRoutes : Reject(route)
    \/ Admitted /\ Len(jobs) < MaxSoloJobs /\ TriggerSync
    \/ Admitted /\ Cancel
    \/ Admitted /\ Schedule
    \/ Admitted /\ \E v \in Versions : CreateProduct(v)
    \/ Admitted /\ \E id \in 1..MaxRows : \E v \in Versions : UpdateProduct(id, v)
    \/ Admitted /\ \E id \in 1..MaxRows : DeleteProduct(id)
    \/ \E j \in 1..MaxJobs : WorkerStart(j)
    \/ \E j \in 1..MaxJobs : \E body \in ShortBodies : FetchBody(j, body)
    \/ \E j \in 1..MaxJobs : FetchFails(j)
    \/ \E j \in 1..MaxJobs : LoopStep(j)
    \/ \E j \in 1..MaxJobs : CommitStep(j)
    \/ \E j \in 1..MaxJobs : ReturnStep(j)
    \/ \E t \in TaskIds : WorkerRevoke(t)

SpecAuth == InitAuth /\ [][NextAuth]_vars

(***************************************************************************)
(* GET /products: the paginated list.                                      *)
(***************************************************************************)
\* PaginationParams.page_size: Field(20, ge=1, le=100)
PageSizeMax == 100
\* the page numbers and page sizes a request may carry: in the model's
\* range, and around the limits of the schema
Pages == 0..MaxPage
PageSizes == 0..MaxPageSize \cup {PageSizeMax, PageSizeMax + 1}

\* PaginationParams: page >= 1, 1 <= page_size <= 100
ValidPagination(page, page_size) ==
    page >= 1 /\ page_size >= 1 /\ page_size <= PageSizeMax

\* PaginationParams.skip and PaginationParams.limit
Skip(page, page_size) == (page - 1) * page_size
Limit(page, page_size) == page_size

\* (mutant) the number of pages is rounded down
TotalPagesFloor(total_count, page_size) ==
    total_count \div page_size

\* get_products, the total_pages it reports
TotalPages(total_count, page_size) ==
    IF total_count > 0 THEN ((total_count - 1) \div page_size) + 1 ELSE 0

\* the orders in which a query without ORDER BY may return the rows
RowOrders(rows) ==
    {o \in [1..Cardinality(rows) -> {r.id : r \in rows}] :
        \A a \in DOMAIN o : \A b \in DOMAIN o : a # b => o[a] # o[b]}

\* query.offset(skip).limit(limit) on rows returned in order o
OffsetLimit(o, skip, limit) ==
    [n \in 1..(IF Len(o) - skip < 0 THEN 0
               ELSE IF Len(o) - skip < limit THEN Len(o) - skip ELSE limit) |-> o[skip + n]]

\* GET /products/ without filters: 422 when the pagination parameters do
\* not validate
GetProducts(page, page_size) ==
    /\ IF ~ValidPagination(page, page_size)
       THEN resp' = [op |-> "list", http |-> 422, page |-> page, page_size |-> page_size]
       ELSE \E o \in RowOrders(db) :
              resp' = [op |-> "list", http |-> 200,
                       products |-> OffsetLimit(o, Skip(page, page_size), Limit(page, page_size)),
                       total |-> Cardinality(db),
                       page |-> page,
                       page_size |-> page_size,
                       total_pages |-> TotalPages(Cardinality(db), page_size)]
    /\ UNCHANGED <<settings, caller, lastFetch, db, nextId, jobs, backend, revokeQ, revoked,
                   lastPass, manualOps>>

InitList ==
    /\ Fresh
    /\ \E S \in SUBSET ExtIds :
         /\ db = SeedTable(S)
         /\ nextId = Cardinality(S) + 1
    /\ lastPass = Untracked
    /\ lastFetch = Untracked

NextList ==
    \/ \E page \in Pages : \E page_size \in PageSizes : GetProducts(page, page_size)
    \/ \E v \in Versions : CreateProduct(v)
    \/ \E id \in 1..MaxRows : DeleteProduct(id)

SpecList == InitList /\ [][NextList]_vars

(***************************************************************************)
(* Properties.                                                             *)
(***************************************************************************)
\* the synced fields of every row of a table
SyncedView(rows) ==
    {[external_id |-> r.external_id, f |-> r.f] : r \in rows}

\* the largest limit GET /sync/history accepts: Query(10, ge=1, le=100)
HistoryLimitMax == 100

\* C1: a reconcile pass that runs right after another pass on the same
\* normalized batch, nothing else writing in between and no fault of the
\* network or the storage in either, reports success with added = 0 and
\* updated = len(batch), and leaves the synced fields of all rows as the
\* first pass left them.
C1_SecondPassIdempotent ==
    \A j \in Minted :
        LET first == jobs[j].prev
            second == jobs[j].pass
        IN  (first.kind = "pass" /\ second.kind = "pass" /\ first.batch = second.batch)
            => /\ second.res.status = "success"
               /\ second.res.added = 0
               /\ second.res.updated = Len(second.batch)
               /\ SyncedView(second.rows) = SyncedView(first.rows)

\* C2: the step in which a pass fails (a lookup, a flush or the commit
\* raises) leaves the committed table as it was and stores an error result
\* without counts; the table changes only in the step in which a pass
\* commits, so nothing a failed pass flushed is ever visible.
C2_AllOrNothing ==
    [][/\ \A j \in Minted :
            (jobs[j].where = "active" /\ jobs'[j].raised)
            => /\ db' = db
               /\ ~jobs'[j].committed
               /\ backend'[j].state = "SUCCESS"
               /\ backend'[j].result = [status |-> "error", error |-> backend'[j].result.error]
       /\ db' # db => \E j \in Minted : ~jobs[j].committed /\ jobs'[j].committed /\ ~jobs'[j].raised
      ]_vars

\* C2 witness: a pass failed in the storage layer after it had flushed an
\* UPDATE, and the row it had updated is unchanged
C2_Witness ==
    \E j \in Minted :
        /\ jobs[j].raised /\ jobs[j].flushed /\ ~jobs[j].committed
        /\ backend[j].result.status = "error"
        /\ db = SeedTable({1})

\* C3: a job whose fetch, normalization or reconcile raised is reported by
\* get_sync_status as failed, with the error text (as long as the backend
\* holds its result).
C3_ErrorsReportedFailed ==
    \A j \in Minted :
        (jobs[j].raised /\ backend[j] # NoMeta)
        => /\ GetSyncStatus(j).status = "failed"
           /\ "error" \in DOMAIN GetSyncStatus(j)

\* the order of the states of a job: pending, running, ended
Rank(status) ==
    CASE status = "pending" -> 0
      [] status \in {"in_progress", "started"} -> 1
      [] OTHER -> 2

\* C4: the status get_sync_status reports for a job never moves backwards,
\* and once it is completed, failed or revoked it never changes again.
C4_StatusMonotone ==
    [][\A t \in Minted :
          LET before == GetSyncStatus(t).status
              after == GetSyncStatus(t)'.status
          IN  /\ Rank(after) >= Rank(before)
              /\ Rank(before) = 2 => after = before
      ]_vars

\* C5: no two rows of the products table share a non-null external id.
C5_UniqueExternalId ==
    \A r1 \in db : \A r2 \in db :
        (r1.external_id # NULL /\ r1.external_id = r2.external_id) => r1 = r2

\* C5 witness: two sync jobs have run their passes at the same time on the
\* same external id and an admin has written to the table
C5_Witness ==
    /\ manualOps > 0
    /\ \E r \in db : r.external_id # NULL
    /\ \E j \in Minted : \E k \in Minted :
         /\ j # k
         /\ InPass(jobs[j]) /\ InPass(jobs[k])
         /\ jobs[j].i = 2 /\ jobs[k].i = 2
         /\ jobs[j].batch[1].external_id = jobs[k].batch[1].external_id

\* C6: cancel on a job that has already succeeded is answered with an
\* error (400), never with "cancelled".
C6_CancelSucceededRejected ==
    [][\A t \in Minted :
          ( /\ backend[t].state = "SUCCESS"
            /\ backend[t].result.status = "success"
            /\ resp' # resp
            /\ resp'.op = "cancel"
            /\ resp'.task_id = t )
          => (resp'.status = "error" /\ resp'.http = 400)
      ]_vars

C8_UnknownIdNotFound ==
    \A t \in TaskIds \ Minted : StatusRoute(t) = 404

\* C9: a trigger answered with an error (an unknown provider key) is a 400
\* that leaves the jobs, the backend and the table as they were, and a
\* trigger that does send a task was given a key the registry resolves.
C9_UnknownProviderRejected ==
    [][(resp' # resp /\ resp'.op = "trigger")
       => IF resp'.status = "error"
          THEN /\ resp'.http = 400
               /\ IsErr(GetProvider(resp'.key, settings))
               /\ jobs' = jobs /\ backend' = backend /\ db' = db
          ELSE /\ Len(jobs') = Len(jobs) + 1
               /\ ~IsErr(GetProvider(jobs'[Len(jobs')].requested, settings))
      ]_vars

\* C9 witness: a trigger naming the unregistered key "custom" was rejected
\* while another job exists
C9_Witness ==
    /\ resp.op = "trigger" /\ resp.status = "error" /\ resp.key = "custom"
    /\ Len(jobs) > 0

\* C10: get_sync_history(limit) returns at most limit tasks.
C10_HistoryBounded ==
    \A limit \in 1..HistoryLimitMax :
        LET h == GetSyncHistory(limit)
        IN  Cardinality(h.active_tasks \cup h.scheduled_tasks \cup h.reserved_tasks) <= limit

\* C11: a schedule request that carries both a cron expression and an
\* interval (both given, whatever their values, the empty string and 0
\* included) is rejected with an error (400) and never accepted.
C11_BothGivenRejected ==
    (resp.op = "schedule"
     /\ resp.request.cron_expression # "None"
     /\ resp.request.interval_seconds # NULL)
    => (resp.status = "error" /\ resp.http = 400)

\* the statuses of a job that has not ended
NonTerminal == {"pending", "in_progress", "started"}

\* C12: as long as the worker has not finished a triggered job, its status
\* is a non-terminal one (pending or running); and under a worker that
\* keeps taking jobs every job sent eventually ends, reported as completed
\* or failed at that moment unless a cancel was requested for it.
C12_PendingThenEnds ==
    /\ [](\A j \in Minted :
            jobs[j].where # "done" => GetSyncStatus(j).status \in NonTerminal)
    /\ [][\A j \in Minted :
            (jobs[j].where # "done" /\ jobs'[j].where = "done" /\ jobs'[j].cancelAt = "none")
            => GetSyncStatus(j)'.status \in {"completed", "failed"}]_vars
    /\ \A j \in 1..MaxJobs :
         (j \in Minted) ~> (j \in Minted /\ jobs[j].where = "done")

\* C12 witness: a manually triggered job that nobody cancelled has run its
\* pass to the end and is reported completed
C12_Witness ==
    \E j \in Minted :
        /\ jobs[j].origin = "manual" /\ jobs[j].cancelAt = "none"
        /\ jobs[j].where = "done" /\ jobs[j].committed
        /\ GetSyncStatus(j).status = "completed"

\* the external ids of a batch that the table holds a row for
PersistedIn(rows, batch) ==
    {i \in 1..Len(batch) : \E r \in rows : r.external_id = batch[i].external_id}

\* the table holds a row for product np with the values np carries
HoldsProduct(rows, np) ==
    \E r \in rows : r.external_id = np.external_id /\ r.f = SyncedFields(np)

\* C13: a pass over a batch of two records with different external ids, one
\* of them persisted before the pass and the other not, that meets no fault
\* of the storage ends with status success, added = 1, updated = 1 and
\* total_processed = 2, and then the table holds both ids with the values
\* of the batch.
C13_OneNewOneKnown ==
    [][\A j \in Minted :
          ( /\ InPass(jobs[j])
            /\ ~InPass(jobs'[j])
            /\ jobs'[j].pass.kind = "pass"
            /\ Len(jobs[j].batch) = 2
            /\ jobs[j].batch[1].external_id # jobs[j].batch[2].external_id
            /\ Cardinality(PersistedIn(db, jobs[j].batch)) = 1 )
          => /\ jobs'[j].pass.res = [status |-> "success", added |-> 1, updated |-> 1,
                                     total_processed |-> 2]
             /\ \A i \in 1..2 : HoldsProduct(db', jobs[j].batch[i])
      ]_vars

\* a normalized product (or what stands in its place) has all three
\* dimensions equal to 0
ZeroDimensions(n) ==
    ~IsErr(n) /\ n.length = 0 /\ n.height = 0 /\ n.depth = 0

\* C14: every record without a dimensions object normalizes to length = 0,
\* height = 0 and depth = 0, never to null and never to an exception, both
\* when normalize_product is given the record itself and when it is given
\* what fetch_products hands on inside fetch_and_normalize_products.
C14_NoDimensionsGiveZero ==
    lastFetch.kind = "fetch"
    => \A i \in 1..Len(lastFetch.body) :
          lastFetch.body[i].dimensions.tag = "absent"
          => /\ ZeroDimensions(NormalizeProduct(lastFetch.body[i]))
             /\ ~IsErr(lastFetch.out)
             /\ ZeroDimensions(lastFetch.out.products[i])

\* the record carries a dimensions object with width, height and depth
FullDimensions(p) ==
    /\ p.dimensions.tag = "dict"
    /\ \A k \in {p.dimensions.width, p.dimensions.height, p.dimensions.depth} :
         k \notin {NULL, ABSENT}

\* normalized product n carries the dimensions of record p: width as
\* length, height and depth as themselves
MapsDimensions(n, p) ==
    /\ ~IsErr(n)
    /\ n.length = p.dimensions.width
    /\ n.height = p.dimensions.height
    /\ n.depth = p.dimensions.depth

\* C15: a record with dimensions {width: w, height: h, depth: d} normalizes
\* to length = w, height = h and depth = d, given as the record itself, as
\* fetch_products dumps it, and inside a fetched batch that normalizes.
C15_DimensionsMapped ==
    lastFetch.kind = "fetch"
    => \A i \in 1..Len(lastFetch.body) :
          FullDimensions(lastFetch.body[i])
          => /\ MapsDimensions(NormalizeProduct(lastFetch.body[i]), lastFetch.body[i])
             /\ MapsDimensions(NormalizeProduct(DumpProduct(lastFetch.body[i])), lastFetch.body[i])
             /\ ~IsErr(lastFetch.out)
                => MapsDimensions(lastFetch.out.products[i], lastFetch.body[i])

\* C15 witness: a fetched batch of two records with different dimension
\* objects has been normalized
C15_Witness ==
    /\ lastFetch.kind = "fetch"
    /\ ~IsErr(lastFetch.out)
    /\ Len(lastFetch.body) = 2
    /\ FullDimensions(lastFetch.body[1]) /\ FullDimensions(lastFetch.body[2])
    /\ lastFetch.body[1].dimensions # lastFetch.body[2].dimensions

\* C16: for a payload of n records that passes the response schema,
\* fetch_and_normalize_products returns n normalized products in the order
\* of the payload, the i-th with the external id of the i-th record (so
\* different ids stay different).
C16_OnePerRecordInOrder ==
    (lastFetch.kind = "fetch" /\ \A i \in 1..Len(lastFetch.body) : ValidProduct(lastFetch.body[i]))
    => /\ ~IsErr(lastFetch.out)
       /\ Len(lastFetch.out.products) = Len(lastFetch.body)
       /\ \A i \in 1..Len(lastFetch.body) :
            lastFetch.out.products[i].external_id = lastFetch.body[i].id
       /\ \A i \in 1..Len(lastFetch.body) : \A k \in 1..Len(lastFetch.body) :
            lastFetch.body[i].id # lastFetch.body[k].id
            => lastFetch.out.products[i].external_id # lastFetch.out.products[k].external_id

\* some record of the body, as fetch_products hands it on, does not
\* normalize
HasBadRecord(body) ==
    /\ ~IsErr(FetchProducts(body))
    /\ \E i \in 1..Len(body) : ~Normalizes(FetchProducts(body).products[i])

\* C17: the step in which a job's fetch meets a record that does not
\* normalize, or fails altogether, ends the job with an error result and
\* leaves the table as it is, whatever valid records came first; and a job
\* that has ended never writes afterwards.
C17_BadRecordDiscardsBatch ==
    [][/\ (lastFetch' # lastFetch /\ HasBadRecord(lastFetch'.body))
          => /\ jobs'[lastFetch'.task].raised
             /\ jobs'[lastFetch'.task].where = "done"
             /\ ~jobs'[lastFetch'.task].committed
             /\ backend'[lastFetch'.task].result.status = "error"
             /\ db' = db
       /\ \A j \in Minted :
            /\ (jobs[j].pc = "fetch" /\ jobs'[j].raised)
               => (db' = db /\ jobs'[j].where = "done" /\ ~jobs'[j].committed)
            /\ jobs[j].where = "done"
               => (jobs'[j].where = "done" /\ jobs'[j].committed = jobs[j].committed)
      ]_vars

\* C17 witness: the second record of a batch did not normalize, the first
\* one was valid and its external id is in the table, untouched
C17_Witness ==
    /\ lastFetch.kind = "fetch"
    /\ Len(lastFetch.body) = 2
    /\ Normalizes(DumpProduct(lastFetch.body[1]))
    /\ ~Normalizes(DumpProduct(lastFetch.body[2]))
    /\ jobs[lastFetch.task].raised
    /\ \E r \in db : r.external_id = lastFetch.body[1].id /\ r.f.title = 0

\* C18: no step of a sync job removes a row: every row of the table before
\* a step that is not an admin's own write is still there after it, with
\* the same id, external id and owner.
C18_SyncNeverDeletes ==
    [][manualOps' = manualOps
       => \A r \in db : \E r2 \in db' :
             /\ r2.id = r.id
             /\ r2.external_id = r.external_id
             /\ r2.owner_id = r.owner_id
      ]_vars

\* C18 witness: a pass has committed an update while the table also holds
\* a manually created row (null external id) and a row whose external id is
\* not in the batch
C18_Witness ==
    \E j \in Minted :
        /\ jobs[j].pc = "return" /\ jobs[j].committed
        /\ Len(jobs[j].batch) = 1
        /\ jobs[j].result.updated = 1
        /\ \E r \in db : r.external_id = NULL
        /\ \E r \in db : r.external_id \notin {NULL, jobs[j].batch[1].external_id}

\* C19: a pass that ends without a fault of the storage has, for every
\* record of its batch whose external id was not persisted, created a row
\* with that id and a non-null owner and counted it in added (the pass
\* reports success); over an empty table and a batch of different ids it
\* reports added = len(batch).
C19_NewRecordsAdded ==
    [][\A j \in Minted :
          (InPass(jobs[j]) /\ ~InPass(jobs'[j]))
          => /\ \A i \in 1..Len(jobs[j].batch) :
                  i \notin PersistedIn(db, jobs[j].batch)
                  => /\ jobs'[j].result.status = "success"
                     /\ jobs'[j].result.added >= 1
                     /\ \E r \in db' : /\ r.external_id = jobs[j].batch[i].external_id
                                       /\ r.owner_id # NULL
             /\ ( /\ db = {}
                  /\ Len(jobs[j].batch) > 0
                  /\ \A i \in 1..Len(jobs[j].batch) : \A k \in 1..Len(jobs[j].batch) :
                       i # k => jobs[j].batch[i].external_id # jobs[j].batch[k].external_id )
                => /\ jobs'[j].result.status = "success"
                   /\ jobs'[j].result.added = Len(jobs[j].batch)
      ]_vars

\* the positions of a batch that hold the last record for their external id
LastOfId(batch) ==
    {i \in 1..Len(batch) : \A k \in 1..Len(batch) :
        batch[k].external_id = batch[i].external_id => k <= i}

\* C20: when the passes of two sync jobs overlapped, both committed, and
\* both batches carried the same external id, then right after the later
\* commit the row of that id holds the values of the batch of the job that
\* committed last.
C20_LastCommitWins ==
    \A j \in Minted : \A k \in Minted :
        ( /\ j # k
          /\ jobs[j].committed /\ jobs[k].committed
          /\ jobs[k].prev = Untracked
          /\ lastPass = jobs[k].pass
          /\ db = lastPass.rows )
        => \A i \in LastOfId(jobs[k].pass.batch) :
              (\E n \in 1..Len(jobs[j].pass.batch) :
                  jobs[j].pass.batch[n].external_id = jobs[k].pass.batch[i].external_id)
              => HoldsProduct(db, jobs[k].pass.batch[i])


\* C21: while a job's pipeline is executing, from the start of the fetch to
\* its end, the status query reports it as running with progress 0/1; it
\* is not reported pending once its execution has begun.
C21_RunningWhileExecuting ==
    \A j \in Minted :
        jobs[j].where = "active"
        => GetSyncStatus(j) = [status |-> "in_progress", current |-> 0, total |-> 1]


BatchIds(batch) ==
    {batch[n].external_id : n \in 1..Len(batch)}

C24_JobUsesValidatedProvider ==
    \A j \in Minted :
        (jobs[j].origin = "manual" /\ jobs[j].provider # NoProvider)
        => jobs[j].provider = GetProvider(jobs[j].requested, settings)


\* C25: a pass over a batch of two records with the same external id, not
\* persisted before the pass, that meets no fault of the storage ends with
\* status success, added = 1, updated = 1 and total_processed = 2, and then
\* the table holds exactly one row for that id, with the values of the
\* second record.
C25_DuplicateInBatch ==
    [][\A j \in Minted :
          ( /\ InPass(jobs[j])
            /\ ~InPass(jobs'[j])
            /\ jobs'[j].pass.kind = "pass"
            /\ Len(jobs[j].batch) = 2
            /\ jobs[j].batch[1].external_id = jobs[j].batch[2].external_id
            /\ PersistedIn(db, jobs[j].batch) = {} )
          => /\ jobs'[j].pass.res = [status |-> "success", added |-> 1, updated |-> 1,
                                     total_processed |-> 2]
             /\ Cardinality({r \in db' : r.external_id = jobs[j].batch[2].external_id}) = 1
             /\ HoldsProduct(db', jobs[j].batch[2])
      ]_vars


\* the period in seconds of the schedule an accepted schedule call reports
\* as configured ("*/5 * * * *" is every 300 s; a falsy interval next to a
\* falsy cron expression was replaced by the default)
ReportedCadence(result) ==
    IF TruthyStr(result.cron_expression) THEN 300 ELSE result.interval_seconds

\* C26: once a schedule call is accepted, the cadence it reports as
\* configured is the cadence at which beat sends the sync task.
C26_RescheduleTakesEffect ==
    (resp.op = "schedule" /\ resp.status = "success")
    => ReportedCadence(resp.result) = BeatCadence


\* C27: while the requests carry the credentials of a caller whose role is
\* not admin, no request takes effect: no product is written through the
\* /products router, no manual job is added, no revoke is sent, and every
\* request answered is answered 401 or 403 and leaves the table, the jobs,
\* the result backend and the revokes as they were.
C27_NonAdminChangesNothing ==
    [][ Role(caller) # "admin"
        => /\ manualOps' = manualOps
           /\ revokeQ' \subseteq revokeQ
           /\ \A j \in 1..Len(jobs') : j > Len(jobs) => jobs'[j].origin # "manual"
           /\ resp' # resp
              => /\ resp'.http \in {401, 403}
                 /\ db' = db /\ nextId' = nextId
                 /\ jobs' = jobs /\ backend' = backend
                 /\ revokeQ' = revokeQ /\ revoked' = revoked ]_vars

\* C27 witness: a user of role "user" was refused the deletion of a product
\* while the table holds a row and a job is running
C27_Witness ==
    /\ caller = "user"
    /\ resp.op = "delete" /\ resp.http = 403
    /\ db # {}
    /\ \E j \in Minted : jobs[j].where = "active"


\* ceil(a / b) for a >= 0, b >= 1: the least n with n * b >= a
Ceil(a, b) ==
    CHOOSE n \in 0..a : n * b >= a /\ \A m \in 0..a : m * b >= a => n <= m

\* C28: a list request with page >= 1 and page_size in 1..100 is answered
\* with total_pages = ceil(total / page_size) (0 when total is 0) and with
\* the rows from offset (page - 1) * page_size on, at most page_size of
\* them.
C28_Pagination ==
    (resp.op = "list" /\ resp.page >= 1 /\ resp.page_size >= 1 /\ resp.page_size <= 100)
    => /\ resp.http = 200
       /\ resp.total_pages = Ceil(resp.total, resp.page_size)
       /\ resp.total = 0 => resp.total_pages = 0
       /\ Len(resp.products) <= resp.page_size
       /\ Len(resp.products) =
             IF resp.total - (resp.page - 1) * resp.page_size <= 0 THEN 0
             ELSE IF resp.total - (resp.page - 1) * resp.page_size < resp.page_size
                  THEN resp.total - (resp.page - 1) * resp.page_size
                  ELSE resp.page_size

\* C28 witness: three rows listed two to a page; the second and last page
\* holds one row
C28_Witness ==
    /\ resp.op = "list" /\ resp.http = 200
    /\ resp.total = 3 /\ resp.page_size = 2 /\ resp.page = 2
    /\ resp.total_pages = 2
    /\ Len(resp.products) = 1

====
